---- MODULE Spec2Model ----
(***************************************************************************)
(* A model of splot_cli: the layout engine of src/splot_cli/core.py        *)
(* (capacity, defect masking, pool expansion and shuffling, partition      *)
(* filling), the run SPLOTCore.process_sequences drives step by step, and  *)
(* the direct calls of the engine's functions that src/test_basic.py       *)
(* makes.                                                                  *)
(*                                                                         *)
(* A DNA sequence is a tuple of one-character strings (<<"C","G">> is      *)
(* "CG"); a Python list is a tuple; a Python dict, which keeps insertion   *)
(* order, is a tuple of records [key, val].                                *)
(***************************************************************************)
EXTENDS Integers, Sequences, FiniteSets, TLC

(***************************************************************************)
(* Bounds of the model.                                                    *)
(***************************************************************************)
\* the run: chips of at most this many rows and columns ...
MaxDim == 2
\* ... and of at most this many physical positions
MaxCapacity == 5
\* the run: rows of the source table
MaxSrcRows == 2
\* the run: defect positions named by the defect file
MaxDefectPos == 1

\* direct calls: chip rows and columns
MaxCallDim == 3
\* direct calls: length of a flag sequence
MaxFlagsLen == 4
\* direct calls: defect positions of set A and of set B
MaxCallDefect == 2
\* direct calls: length of a list of sequences to extend or to shuffle
MaxListLen == 3
\* direct calls: target count of extend_sequences
MaxTarget == 7
\* direct calls: length of an expanded pool handed to _fill_partitions
MaxPoolLen == 2
MaxPatDim == 2
MaxWindow == 4

\* models.py PrintDensity
Densities == {"DPI150", "DPI150_PLUS", "DPI300"}

\* partition keys of the inputs, and the flags of a mask ("0" = disabled)
Partitions == {"P1", "P2"}
Flags == {"0"} \cup Partitions

\* the source sequences of the inputs, of two lengths
SrcSeqs == {<<"A">>, <<"C", "G">>}

\* file_handlers.py:204, the A/B threshold of the defect list
DefectThreshold == 319

(***************************************************************************)
(* Helpers: Python's list and dict operations.                             *)
(***************************************************************************)
\* "0" * n (the empty string for n <= 0)
Zeros(n) == [i \in 1..n |-> "0"]

\* seq_list * n
RECURSIVE Repeat(_, _)
Repeat(list, n) == IF n <= 0 THEN <<>> ELSE list \o Repeat(list, n - 1)

\* list[:n]
Take(list, n) == SubSeq(list, 1, IF n < Len(list) THEN n ELSE Len(list))

Max(S) == CHOOSE m \in S : \A x \in S : x <= m

\* all tuples over S of length lo..hi
SeqsOf(S, lo, hi) == UNION {[1..n -> S] : n \in lo..hi}

\* dict: keys in insertion order, membership, lookup
Keys(d) == [i \in 1..Len(d) |-> d[i].key]
KeySet(d) == {d[i].key : i \in 1..Len(d)}
HasKey(d, k) == k \in KeySet(d)
Get(d, k) == d[CHOOSE i \in 1..Len(d) : d[i].key = k].val

\* d[k].append(v), creating d[k] = [] first when k is new
DictAppend(d, k, v) ==
    IF HasKey(d, k)
    THEN [i \in 1..Len(d) |->
            IF d[i].key = k THEN [key |-> k, val |-> Append(d[i].val, v)] ELSE d[i]]
    ELSE Append(d, [key |-> k, val |-> <<v>>])

(***************************************************************************)
(* core.py SequenceProcessor                                               *)
(***************************************************************************)
\* a changed extend_sequences: the list is returned whole, not cut to max_count
extend_sequences_uncut(seq_list, max_count, dummy_seq) ==
    LET current_count == Len(seq_list) IN
    IF current_count >= max_count
    THEN [raised |-> FALSE, value |-> seq_list]
    ELSE IF current_count = 0
    THEN [raised |-> TRUE, value |-> <<>>]
    ELSE LET n == max_count \div current_count
             additional_count == max_count - current_count * n
         IN [raised |-> FALSE,
             value |-> Repeat(seq_list, n) \o [i \in 1..additional_count |-> dummy_seq]]

\* a changed extend_sequences: the rest is filled with the list's own
\* sequences, not with fillers
extend_sequences_cycle(seq_list, max_count, dummy_seq) ==
    LET current_count == Len(seq_list) IN
    IF current_count >= max_count
    THEN [raised |-> FALSE, value |-> Take(seq_list, max_count)]
    ELSE IF current_count = 0
    THEN [raised |-> TRUE, value |-> <<>>]
    ELSE LET n == max_count \div current_count
         IN [raised |-> FALSE, value |-> Take(Repeat(seq_list, n + 1), max_count)]

\* a changed extend_sequences: an empty list is padded with fillers
extend_sequences_pad_empty(seq_list, max_count, dummy_seq) ==
    LET current_count == Len(seq_list) IN
    IF current_count >= max_count
    THEN [raised |-> FALSE, value |-> Take(seq_list, max_count)]
    ELSE IF current_count = 0
    THEN [raised |-> FALSE, value |-> [i \in 1..max_count |-> dummy_seq]]
    ELSE LET n == max_count \div current_count
             additional_count == max_count - current_count * n
         IN [raised |-> FALSE,
             value |-> Repeat(seq_list, n) \o [i \in 1..additional_count |-> dummy_seq]]

\* extend_sequences: [raised, value]; raised is the ZeroDivisionError of
\* max_count // 0
extend_sequences(seq_list, max_count, dummy_seq) ==
    LET current_count == Len(seq_list) IN
    IF current_count >= max_count
    THEN [raised |-> FALSE, value |-> Take(seq_list, max_count)]
    ELSE IF current_count = 0
    THEN [raised |-> TRUE, value |-> <<>>]
    ELSE LET n == max_count \div current_count
             additional_count == max_count - current_count * n
         IN [raised |-> FALSE,
             value |-> Repeat(seq_list, n) \o [i \in 1..additional_count |-> dummy_seq]]

\* x[i], x[j] = x[j], x[i]
Swap(list, i, j) ==
    [k \in 1..Len(list) |->
        IF k = i THEN list[j] ELSE IF k = j THEN list[i] ELSE list[k]]

\* random.shuffle(x): for i from the last index down to the second, swap x[i]
\* with x[j], j drawn from the indices up to i. The set of lists it can leave.
RECURSIVE ShuffleFrom(_, _)
ShuffleFrom(S, i) ==
    IF i <= 1 THEN S
    ELSE ShuffleFrom({Swap(list, i, j) : list \in S, j \in 1..i}, i - 1)

random_shuffle(list) == ShuffleFrom({list}, Len(list))

\* a changed shuffle_sequences: the caller's list is shuffled in place
shuffle_sequences_in_place(sequences) ==
    {[ret |-> shuffled, arg |-> shuffled] : shuffled \in random_shuffle(sequences)}

\* shuffle_sequences: the outcomes [ret, arg]: the list returned and the
\* caller's list after the call (the shuffle works on a copy)
shuffle_sequences(sequences) ==
    {[ret |-> shuffled, arg |-> sequences] : shuffled \in random_shuffle(sequences)}

(***************************************************************************)
(* core.py PartitionManager                                                *)
(***************************************************************************)
\* a changed calculate_total_capacity: DPI300 doubles the rows only
calculate_total_capacity_half_300(chip_rows, chip_cols, density) ==
    IF density = "DPI150" THEN chip_rows * chip_cols
    ELSE IF density = "DPI150_PLUS"
    THEN chip_rows * chip_cols + (chip_rows - 1) * (chip_cols - 1)
    ELSE (2 * chip_rows) * chip_cols

calculate_total_capacity(chip_rows, chip_cols, density) ==
    IF density = "DPI150" THEN chip_rows * chip_cols
    ELSE IF density = "DPI150_PLUS"
    THEN chip_rows * chip_cols + (chip_rows - 1) * (chip_cols - 1)
    ELSE (2 * chip_rows) * (2 * chip_cols)

\* a changed divisor of apply_defect_mask: the chip's rows for every density
defect_divisor_rows_only(chip_rows, density) == chip_rows

defect_divisor(chip_rows, density) ==
    IF density = "DPI150" THEN chip_rows
    ELSE IF density = "DPI150_PLUS" THEN chip_rows * 2 - 1
    ELSE chip_rows * 2

\* a changed is_defect: the line position is taken 0-based
is_defect_zero_based(i, divisor, defect_data) ==
    LET pos == i % divisor
    IN pos \in defect_data.defect_a_locations \/ pos \in defect_data.defect_b_locations

\* is_defect of the masking loop, for 0-based index i
is_defect(i, divisor, defect_data) ==
    LET pos == (i % divisor) + 1
    IN pos \in defect_data.defect_a_locations \/ pos \in defect_data.defect_b_locations

\* a changed apply_defect_mask: the line position is counted over the flags
\* that are not disabled already
apply_defect_mask_counting_enabled(chip_rows, density, partition_flags, defect_data) ==
    LET divisor == defect_divisor(chip_rows, density)
        enabled_before(k) == Cardinality({j \in 1..(k - 1) : partition_flags[j] # "0"})
    IN [k \in 1..Len(partition_flags) |->
          IF ((enabled_before(k) % divisor) + 1) \in
                (defect_data.defect_a_locations \cup defect_data.defect_b_locations)
          THEN "0" ELSE partition_flags[k]]

apply_defect_mask(chip_rows, density, partition_flags, defect_data) ==
    LET divisor == defect_divisor(chip_rows, density)
    IN [k \in 1..Len(partition_flags) |->
          IF is_defect(k - 1, divisor, defect_data) THEN "0" ELSE partition_flags[k]]

count_valid_positions(partition_flags) ==
    [f \in {partition_flags[k] : k \in 1..Len(partition_flags)} \ {"0"} |->
        Cardinality({k \in 1..Len(partition_flags) : partition_flags[k] = f})]

(***************************************************************************)
(* file_handlers.py: the loaders and the writers                           *)
(***************************************************************************)
\* load_sequences_from_tsv, lines 51-86, over the rows [key, seq] of the
\* table after the partition column is resolved
RECURSIVE group_by_partition(_, _)
group_by_partition(table, n) ==
    IF n = 0 THEN <<>>
    ELSE DictAppend(group_by_partition(table, n - 1), table[n].key, table[n].seq)

load_sequences(table) ==
    LET all_sequences == [i \in 1..Len(table) |-> table[i].seq]
        max_length == IF Len(table) > 0
                      THEN Max({Len(all_sequences[i]) : i \in 1..Len(table)})
                      ELSE 0
    IN [sequences |-> all_sequences,
        partition_sequences |-> group_by_partition(table, Len(table)),
        sequence_length |-> max_length,
        sequence_count |-> Len(all_sequences)]

\* models.py validate_sequence: re.match of ^[ATCGatcg0]+$, whose $ also
\* matches before a newline that ends the string
validate_sequence(seq) ==
    IF seq = <<>> THEN FALSE
    ELSE LET body == IF seq[Len(seq)] = "\n" THEN SubSeq(seq, 1, Len(seq) - 1) ELSE seq
         IN /\ body # <<>>
            /\ \A k \in 1..Len(body) :
                  body[k] \in {"A", "T", "C", "G", "a", "t", "c", "g", "0"}

\* load_sequences_from_tsv: the error raised ("" when none) and the data
load_sequences_from_tsv(table, check_source) ==
    IF check_source /\ \E i \in 1..Len(table) : ~validate_sequence(table[i].seq)
    THEN [error |-> "IllegalCharacter", value |-> load_sequences(<<>>)]
    ELSE [error |-> "", value |-> load_sequences(table)]

\* load_sequences_from_excel: the same loop without the legality check
load_sequences_from_excel(table) ==
    [error |-> "", value |-> load_sequences(table)]

\* core.py _load_sequence_data: the loader is picked by the file extension
load_sequence_data(opts, table) ==
    IF opts.input_ext = ".tsv"
    THEN load_sequences_from_tsv(table, opts.check_source)
    ELSE IF opts.input_ext \in {".xlsx", ".xls"}
    THEN load_sequences_from_excel(table)
    ELSE [error |-> "UnsupportedFormat", value |-> load_sequences(<<>>)]

\* load_partition_data raises on a file with no flag line
partition_file_empty(lines) == Len(lines) = 0

\* load_defect_data: positions below the threshold are A-line, the rest B-line
load_defect_data(positions) ==
    [defect_a_locations |-> {p \in positions : p < DefectThreshold},
     defect_b_locations |-> {p \in positions : ~(p < DefectThreshold)}]

\* '\n'.join(lines), and ''.join(parts)
RECURSIVE JoinLines(_)
JoinLines(lines) ==
    IF Len(lines) = 0 THEN <<>>
    ELSE IF Len(lines) = 1 THEN lines[1]
    ELSE lines[1] \o <<"\n">> \o JoinLines(Tail(lines))

RECURSIVE Concat(_)
Concat(parts) == IF Len(parts) = 0 THEN <<>> ELSE parts[1] \o Concat(Tail(parts))

\* a changed write_sequences: the last line gets a newline as well
RECURSIVE write_sequences_newline_each(_, _)
write_sequences_newline_each(sequences, i) ==
    IF i > Len(sequences) THEN <<>>
    ELSE sequences[i] \o <<"\n">> \o write_sequences_newline_each(sequences, i + 1)

\* write_sequences: what the loop writes to the file, in order
RECURSIVE write_sequences_from(_, _)
write_sequences_from(sequences, i) ==
    IF i > Len(sequences) THEN <<>>
    ELSE IF i = Len(sequences) THEN sequences[i]
    ELSE sequences[i] \o <<"\n">> \o write_sequences_from(sequences, i + 1)

write_sequences(sequences) == write_sequences_from(sequences, 1)

\* text[a:b] for 0 <= a
Slice(text, a, b) ==
    LET hi == IF b < Len(text) THEN b ELSE Len(text)
    IN IF a >= hi THEN <<>> ELSE SubSeq(text, a + 1, hi)

\* a changed _format_output: a short text is not padded
format_output_no_pad(text, width) ==
    IF Len(text) >= width THEN Slice(text, 0, width) ELSE text

\* ChipLayoutOptimizer._format_output
format_output(text, width) ==
    IF Len(text) >= width THEN Slice(text, 0, width)
    ELSE [k \in 1..(width - Len(text)) |-> " "] \o text

\* the cell of a data position: the window of its sequence, or the filler
\* when the position is beyond the sequences
pattern_cell(sequences, pos, from_pos, length) ==
    IF pos < Len(sequences)
    THEN format_output(Slice(sequences[pos + 1], from_pos - 1, from_pos - 1 + length),
                       length + 1)
    ELSE format_output(Zeros(length), length + 1)

\* a changed position formula of _generate_150dpi_pattern: the columns run
\* from the top
pos_150dpi_top_down(chip_rows, i, j) == j * chip_rows + i

\* the position index shown in grid cell (i, j), 0-based
pos_150dpi(chip_rows, i, j) == j * chip_rows + chip_rows - i - 1

plus_is_data_cell(i, j) == (i % 2 = 0 /\ j % 2 = 0) \/ (i % 2 = 1 /\ j % 2 = 1)

pos_150dpi_plus(chip_rows, i, j) ==
    IF j % 2 = 0
    THEN (j \div 2) * (chip_rows * 2 - 1) + chip_rows - (i \div 2) - 1
    ELSE (j \div 2) * (chip_rows * 2 - 1) + chip_rows + chip_rows - 1 - (i \div 2) - 1

\* a changed position formula of _generate_300dpi_pattern: one further up
pos_300dpi_one_up(chip_rows, i, j) == (2 * chip_rows) * (j + 1) - i

pos_300dpi(chip_rows, i, j) == (2 * chip_rows) * (j + 1) - i - 1

generate_150dpi_pattern(chip_rows, chip_cols, sequences, from_pos, length) ==
    [r \in 1..chip_rows |->
        Concat([c \in 1..chip_cols |->
            pattern_cell(sequences, pos_150dpi(chip_rows, r - 1, c - 1), from_pos, length)])]

generate_150dpi_plus_pattern(chip_rows, chip_cols, sequences, from_pos, length) ==
    [r \in 1..(chip_rows * 2 - 1) |->
        Concat([c \in 1..(chip_cols * 2 - 1) |->
            IF plus_is_data_cell(r - 1, c - 1)
            THEN pattern_cell(sequences, pos_150dpi_plus(chip_rows, r - 1, c - 1),
                              from_pos, length)
            ELSE format_output([k \in 1..length |-> " "], length + 1)])]

generate_300dpi_pattern(chip_rows, chip_cols, sequences, from_pos, length) ==
    [r \in 1..(chip_rows * 2) |->
        Concat([c \in 1..(chip_cols * 2) |->
            pattern_cell(sequences, pos_300dpi(chip_rows, r - 1, c - 1), from_pos, length)])]

\* generate_pattern_content; seq_range is <<>> (None) or <<from, to>>
pattern_lines(chip_rows, chip_cols, sequences, density, seq_range) ==
    LET from_pos == IF seq_range = <<>> THEN 1 ELSE seq_range[1]
        to_pos == IF seq_range = <<>>
                  THEN (IF Len(sequences) > 0 THEN Len(sequences[1]) ELSE 1)
                  ELSE seq_range[2]
        display_length == to_pos - from_pos + 1
    IN IF density = "DPI150"
       THEN generate_150dpi_pattern(chip_rows, chip_cols, sequences, from_pos, display_length)
       ELSE IF density = "DPI150_PLUS"
       THEN generate_150dpi_plus_pattern(chip_rows, chip_cols, sequences, from_pos, display_length)
       ELSE generate_300dpi_pattern(chip_rows, chip_cols, sequences, from_pos, display_length)

generate_pattern_content(chip_rows, chip_cols, sequences, density, seq_range) ==
    JoinLines(pattern_lines(chip_rows, chip_cols, sequences, density, seq_range))

(***************************************************************************)
(* core.py SPLOTCore: the stages of a run                                  *)
(***************************************************************************)
\* a changed _validate_data: only a mask shorter than the chip is refused
validate_data_short_only(seq_data, partition_flags, opts) ==
    LET total_capacity ==
            calculate_total_capacity(opts.chip_rows, opts.chip_cols, opts.density)
    IN IF Len(partition_flags) < total_capacity THEN "CapacityMismatch"
       ELSE IF opts.mask_length > seq_data.sequence_length THEN "MaskLengthExceeded"
       ELSE ""

\* a changed _validate_data: a mask as long as the source sequences is refused
validate_data_mask_equal(seq_data, partition_flags, opts) ==
    LET total_capacity ==
            calculate_total_capacity(opts.chip_rows, opts.chip_cols, opts.density)
    IN IF Len(partition_flags) # total_capacity THEN "CapacityMismatch"
       ELSE IF opts.mask_length >= seq_data.sequence_length THEN "MaskLengthExceeded"
       ELSE ""

\* _validate_data: the error it raises, "" when it passes
validate_data(seq_data, partition_flags, opts) ==
    LET total_capacity ==
            calculate_total_capacity(opts.chip_rows, opts.chip_cols, opts.density)
    IN IF Len(partition_flags) # total_capacity THEN "CapacityMismatch"
       ELSE IF opts.mask_length > seq_data.sequence_length THEN "MaskLengthExceeded"
       ELSE ""

\* a changed _check_capacity: the supplied count is not compared with the
\* valid positions
RECURSIVE check_capacity_no_overflow(_, _, _)
check_capacity_no_overflow(partition_sequences, valid_counts, n) ==
    IF n > Len(partition_sequences)
    THEN IF (DOMAIN valid_counts) \ KeySet(partition_sequences) # {}
         THEN "ExtraneousPartition" ELSE ""
    ELSE IF partition_sequences[n].key \notin DOMAIN valid_counts THEN "UnknownPartition"
    ELSE check_capacity_no_overflow(partition_sequences, valid_counts, n + 1)

\* a changed _check_capacity: a partition that fills its valid positions
\* exactly is refused too
RECURSIVE check_capacity_strict(_, _, _)
check_capacity_strict(partition_sequences, valid_counts, n) ==
    IF n > Len(partition_sequences)
    THEN IF (DOMAIN valid_counts) \ KeySet(partition_sequences) # {}
         THEN "ExtraneousPartition" ELSE ""
    ELSE IF partition_sequences[n].key \notin DOMAIN valid_counts THEN "UnknownPartition"
    ELSE IF Len(partition_sequences[n].val) >= valid_counts[partition_sequences[n].key]
    THEN "PartitionOverflow"
    ELSE check_capacity_strict(partition_sequences, valid_counts, n + 1)

\* a changed _check_capacity: the partitions of the mask are not looked for
\* in the source
RECURSIVE check_capacity_no_extra(_, _, _)
check_capacity_no_extra(partition_sequences, valid_counts, n) ==
    IF n > Len(partition_sequences)
    THEN ""
    ELSE LET partition == partition_sequences[n].key
             sequences == partition_sequences[n].val
         IN IF partition \notin DOMAIN valid_counts THEN "UnknownPartition"
            ELSE IF Len(sequences) > valid_counts[partition] THEN "PartitionOverflow"
            ELSE check_capacity_no_extra(partition_sequences, valid_counts, n + 1)

\* _check_capacity: the loop over the source partitions from the n-th on, then
\* the extra partitions of the mask; the error it raises, "" when it passes
RECURSIVE check_capacity_from(_, _, _)
check_capacity_from(partition_sequences, valid_counts, n) ==
    IF n > Len(partition_sequences)
    THEN IF (DOMAIN valid_counts) \ KeySet(partition_sequences) # {}
         THEN "ExtraneousPartition" ELSE ""
    ELSE LET partition == partition_sequences[n].key
             sequences == partition_sequences[n].val
         IN IF partition \notin DOMAIN valid_counts THEN "UnknownPartition"
            ELSE IF Len(sequences) > valid_counts[partition] THEN "PartitionOverflow"
            ELSE check_capacity_from(partition_sequences, valid_counts, n + 1)

check_capacity(seq_data, valid_counts) ==
    check_capacity_from(seq_data.partition_sequences, valid_counts, 1)

\* a changed filler of _expand_and_shuffle_sequences: of the mask length only
expand_dummy_seq_mask_only(mask_length, seq_length) == Zeros(mask_length)

\* the filler _expand_and_shuffle_sequences pads with
expand_dummy_seq(mask_length, seq_length) ==
    Zeros(seq_length - mask_length) \o Zeros(mask_length)

\* _expand_and_shuffle_sequences: the dicts it can return, one per outcome of
\* the shuffles, over the first n source partitions
RECURSIVE expand_and_shuffle_upto(_, _, _, _)
expand_and_shuffle_upto(partition_sequences, valid_counts, dummy_seq, n) ==
    IF n = 0 THEN {<<>>}
    ELSE LET partition == partition_sequences[n].key
             expanded == extend_sequences(partition_sequences[n].val,
                                          valid_counts[partition], dummy_seq)
         IN IF expanded.raised THEN {}
            ELSE {Append(d, [key |-> partition, val |-> s.ret]) :
                    d \in expand_and_shuffle_upto(partition_sequences, valid_counts,
                                                  dummy_seq, n - 1),
                    s \in shuffle_sequences(expanded.value)}

expand_and_shuffle_sequences(seq_data, valid_counts, mask_length, seq_length) ==
    expand_and_shuffle_upto(seq_data.partition_sequences, valid_counts,
                            expand_dummy_seq(mask_length, seq_length),
                            Len(seq_data.partition_sequences))

\* a changed filler of _fill_partitions: always of the mask length
fill_dummy_seq_mask_length(expanded_partitions, mask_length) == Zeros(mask_length)

\* a changed filler of _fill_partitions: the first pool that is not empty
\* gives the length
fill_dummy_seq_first_non_empty(expanded_partitions, mask_length) ==
    LET non_empty == {i \in 1..Len(expanded_partitions) :
                        Len(expanded_partitions[i].val) > 0}
    IN IF non_empty # {}
       THEN Zeros(Len(expanded_partitions[
                        CHOOSE i \in non_empty : \A j \in non_empty : i <= j].val[1]))
       ELSE Zeros(mask_length)

\* the filler of _fill_partitions
fill_dummy_seq(expanded_partitions, mask_length) ==
    IF Len(expanded_partitions) > 0
    THEN IF Len(expanded_partitions[1].val) > 0
         THEN Zeros(Len(expanded_partitions[1].val[1]))
         ELSE Zeros(mask_length)
    ELSE Zeros(mask_length)

\* a changed loop turn: nothing is emitted in the defensive branch
fill_step_no_else(st, flag, expanded_partitions, dummy_seq) ==
    IF flag = "0"
    THEN [st EXCEPT !.final_sequences = Append(@, dummy_seq)]
    ELSE IF HasKey(expanded_partitions, flag)
            /\ st.partition_indices[flag] < Len(Get(expanded_partitions, flag))
    THEN [final_sequences |->
              Append(st.final_sequences,
                     Get(expanded_partitions, flag)[st.partition_indices[flag] + 1]),
          partition_indices |->
              [st.partition_indices EXCEPT ![flag] = @ + 1]]
    ELSE st

\* a changed loop turn: a disabled position uses up a pool slot of every partition
fill_step_zero_advances(st, flag, expanded_partitions, dummy_seq) ==
    IF flag = "0"
    THEN [final_sequences |-> Append(st.final_sequences, dummy_seq),
          partition_indices |->
              [p \in DOMAIN st.partition_indices |-> st.partition_indices[p] + 1]]
    ELSE IF HasKey(expanded_partitions, flag)
            /\ st.partition_indices[flag] < Len(Get(expanded_partitions, flag))
    THEN [final_sequences |->
              Append(st.final_sequences,
                     Get(expanded_partitions, flag)[st.partition_indices[flag] + 1]),
          partition_indices |->
              [st.partition_indices EXCEPT ![flag] = @ + 1]]
    ELSE [st EXCEPT !.final_sequences = Append(@, dummy_seq)]

\* a changed loop turn: the cursor is not advanced
fill_step_no_advance(st, flag, expanded_partitions, dummy_seq) ==
    IF flag = "0"
    THEN [st EXCEPT !.final_sequences = Append(@, dummy_seq)]
    ELSE IF HasKey(expanded_partitions, flag)
            /\ st.partition_indices[flag] < Len(Get(expanded_partitions, flag))
    THEN [st EXCEPT !.final_sequences =
              Append(@, Get(expanded_partitions, flag)[st.partition_indices[flag] + 1])]
    ELSE [st EXCEPT !.final_sequences = Append(@, dummy_seq)]

\* one turn of the loop of _fill_partitions
fill_step(st, flag, expanded_partitions, dummy_seq) ==
    IF flag = "0"
    THEN [st EXCEPT !.final_sequences = Append(@, dummy_seq)]
    ELSE IF HasKey(expanded_partitions, flag)
            /\ st.partition_indices[flag] < Len(Get(expanded_partitions, flag))
    THEN [final_sequences |->
              Append(st.final_sequences,
                     Get(expanded_partitions, flag)[st.partition_indices[flag] + 1]),
          partition_indices |->
              [st.partition_indices EXCEPT ![flag] = @ + 1]]
    ELSE [st EXCEPT !.final_sequences = Append(@, dummy_seq)]

\* the loop after its first n turns
RECURSIVE fill_loop(_, _, _, _)
fill_loop(masked_flags, expanded_partitions, dummy_seq, n) ==
    IF n = 0
    THEN [final_sequences |-> <<>>,
          partition_indices |-> [p \in KeySet(expanded_partitions) |-> 0]]
    ELSE fill_step(fill_loop(masked_flags, expanded_partitions, dummy_seq, n - 1),
                   masked_flags[n], expanded_partitions, dummy_seq)

fill_partitions(masked_flags, expanded_partitions, mask_length) ==
    fill_loop(masked_flags, expanded_partitions,
              fill_dummy_seq(expanded_partitions, mask_length),
              Len(masked_flags)).final_sequences

(***************************************************************************)
(* The state: one run of the program (main.py run, process_sequences).     *)
(***************************************************************************)
VARIABLES
    cli_mask_length,     \* the --mask-length option as given (main.py run), 0 for auto
    options,             \* ProcessingOptions (mask_length is rewritten by the auto rule)
    input_table,         \* the rows of the sequence table file
    partition_lines,     \* the flag lines of the partition mask file
    defect_positions,    \* the positions named by the defect file
    pc,                  \* the step of process_sequences the run is at
    sequence_data,       \* SequenceData, once loaded
    partition_flags,     \* PartitionData.partition_flags, once loaded
    defect_data,         \* DefectData, once loaded
    masked_flags,        \* step 4
    valid_counts,        \* step 4
    expanded_partitions, \* step 6
    final_sequences,     \* step 7
    files,               \* the output files written so far: a dict name -> content
    result,              \* the ProcessingResult returned
    exit_status,         \* the status the CLI exits with, -1 while it runs
    call                 \* a direct call of one function of the engine, and its result

run_vars == <<cli_mask_length, options, input_table, partition_lines, defect_positions, pc,
              sequence_data, partition_flags, defect_data, masked_flags, valid_counts,
              expanded_partitions, final_sequences, files, result, exit_status>>
vars == <<run_vars, call>>

NoCall == [fn |-> "none"]
NoResult == [success |-> FALSE, message |-> "pending", output_files |-> <<>>]

\* the chips of the model
Geometries ==
    {g \in [chip_rows : 1..MaxDim, chip_cols : 1..MaxDim, density : Densities] :
        calculate_total_capacity(g.chip_rows, g.chip_cols, g.density) <= MaxCapacity}

\* the mask files tried against a chip: a partition on every line (the defect
\* list is what disables positions in a run); every file of as many lines as
\* the chip's capacity, and one file with a line fewer and one with a line more
MaskFiles(g) ==
    LET cap == calculate_total_capacity(g.chip_rows, g.chip_cols, g.density)
    IN SeqsOf(Partitions, cap, cap)
       \cup SeqsOf({"P1"}, cap - 1, cap - 1) \cup SeqsOf({"P1"}, cap + 1, cap + 1)

\* the defect files tried: an empty one, and one that names a line position
DefectFiles == {{}, {MaxDefectPos}}

\* the mask lengths asked for: 0 (auto) up to the longest source sequence
MaskLengths == 0..Max({Len(s) : s \in SrcSeqs})

RunInit ==
    /\ \E g \in Geometries, m \in MaskLengths, gp \in BOOLEAN :
          /\ cli_mask_length = m
          /\ options = [chip_rows |-> g.chip_rows, chip_cols |-> g.chip_cols,
                        density |-> g.density, mask_length |-> m,
                        input_ext |-> ".tsv", check_source |-> TRUE,
                        generate_pattern |-> gp, pattern_seq_range |-> <<>>]
          /\ partition_lines \in MaskFiles(g)
    /\ input_table \in SeqsOf([key : Partitions, seq : SrcSeqs], 0, MaxSrcRows)
    /\ defect_positions \in DefectFiles
    /\ pc = "load"
    /\ sequence_data = load_sequences(<<>>)
    /\ partition_flags = <<>>
    /\ defect_data = load_defect_data({})
    /\ masked_flags = <<>>
    /\ valid_counts = <<>>
    /\ expanded_partitions = <<>>
    /\ final_sequences = <<>>
    /\ files = <<>>
    /\ result = NoResult
    /\ exit_status = -1

Init == RunInit /\ call = NoCall

\* the except clause of process_sequences: the run returns a failure
Fail(kind) ==
    /\ result' = [success |-> FALSE, message |-> kind, output_files |-> <<>>]
    /\ pc' = "returned"

\* step 1: load the three files; the auto rule of the mask length
LoadInputs ==
    /\ pc = "load"
    /\ LET loaded == load_sequence_data(options, input_table)
           sd == loaded.value
       IN IF loaded.error # ""
          THEN /\ Fail(loaded.error)
               /\ UNCHANGED <<options, sequence_data, partition_flags, defect_data>>
          ELSE /\ sequence_data' = sd
               /\ options' = IF options.mask_length = 0
                             THEN [options EXCEPT !.mask_length = sd.sequence_length]
                             ELSE options
               /\ IF partition_file_empty(partition_lines)
                  THEN /\ Fail("EmptyPartitionFile")
                       /\ UNCHANGED <<partition_flags, defect_data>>
                  ELSE /\ partition_flags' = partition_lines
                       /\ defect_data' = load_defect_data(defect_positions)
                       /\ pc' = "validate"
                       /\ UNCHANGED result
    /\ UNCHANGED <<cli_mask_length, input_table, partition_lines, defect_positions, masked_flags,
                   valid_counts, expanded_partitions, final_sequences, files,
                   exit_status, call>>

\* step 2: _validate_data
ValidateData ==
    /\ pc = "validate"
    /\ LET err == validate_data(sequence_data, partition_flags, options) IN
       IF err # "" THEN Fail(err) ELSE pc' = "mask" /\ UNCHANGED result
    /\ UNCHANGED <<cli_mask_length, options, input_table, partition_lines, defect_positions,
                   sequence_data, partition_flags, defect_data, masked_flags,
                   valid_counts, expanded_partitions, final_sequences, files,
                   exit_status, call>>

\* steps 3 and 4: apply_defect_mask, count_valid_positions
ApplyDefectMask ==
    /\ pc = "mask"
    /\ LET masked == apply_defect_mask(options.chip_rows, options.density,
                                       partition_flags, defect_data) IN
       /\ masked_flags' = masked
       /\ valid_counts' = count_valid_positions(masked)
    /\ pc' = "check"
    /\ UNCHANGED <<cli_mask_length, options, input_table, partition_lines, defect_positions,
                   sequence_data, partition_flags, defect_data,
                   expanded_partitions, final_sequences, files, result,
                   exit_status, call>>

\* step 5: _check_capacity
CheckCapacity ==
    /\ pc = "check"
    /\ LET err == check_capacity(sequence_data, valid_counts) IN
       IF err # "" THEN Fail(err) ELSE pc' = "expand" /\ UNCHANGED result
    /\ UNCHANGED <<cli_mask_length, options, input_table, partition_lines, defect_positions,
                   sequence_data, partition_flags, defect_data, masked_flags,
                   valid_counts, expanded_partitions, final_sequences, files,
                   exit_status, call>>

\* step 6: _expand_and_shuffle_sequences, one outcome of the shuffles
ExpandAndShuffle ==
    /\ pc = "expand"
    /\ \E e \in expand_and_shuffle_sequences(sequence_data, valid_counts,
                                             options.mask_length,
                                             sequence_data.sequence_length) :
          expanded_partitions' = e
    /\ pc' = "fill"
    /\ UNCHANGED <<cli_mask_length, options, input_table, partition_lines, defect_positions,
                   sequence_data, partition_flags, defect_data, masked_flags,
                   valid_counts, final_sequences, files, result, exit_status, call>>

\* step 7: _fill_partitions
FillPartitions ==
    /\ pc = "fill"
    /\ final_sequences' = fill_partitions(masked_flags, expanded_partitions,
                                          options.mask_length)
    /\ pc' = "write_sequences"
    /\ UNCHANGED <<cli_mask_length, options, input_table, partition_lines, defect_positions,
                   sequence_data, partition_flags, defect_data, masked_flags,
                   valid_counts, expanded_partitions, files, result, exit_status, call>>

\* step 8, _write_output_files: the sequence file
WriteSequences ==
    /\ pc = "write_sequences"
    /\ files' = Append(files, [key |-> "sequences",
                               val |-> write_sequences(final_sequences)])
    /\ pc' = IF options.generate_pattern THEN "write_pattern" ELSE "return"
    /\ UNCHANGED <<cli_mask_length, options, input_table, partition_lines, defect_positions,
                   sequence_data, partition_flags, defect_data, masked_flags,
                   valid_counts, expanded_partitions, final_sequences, result,
                   exit_status, call>>

\* step 8, _write_output_files: the pattern file, when asked for
WritePattern ==
    /\ pc = "write_pattern"
    /\ files' = Append(files,
                       [key |-> "pattern",
                        val |-> generate_pattern_content(
                                    options.chip_rows, options.chip_cols,
                                    final_sequences, options.density,
                                    options.pattern_seq_range)])
    /\ pc' = "return"
    /\ UNCHANGED <<cli_mask_length, options, input_table, partition_lines, defect_positions,
                   sequence_data, partition_flags, defect_data, masked_flags,
                   valid_counts, expanded_partitions, final_sequences, result,
                   exit_status, call>>

\* the ProcessingResult of a run that got through
ReturnSuccess ==
    /\ pc = "return"
    /\ result' = [success |-> TRUE, message |-> "ok", output_files |-> Keys(files)]
    /\ pc' = "returned"
    /\ UNCHANGED <<cli_mask_length, options, input_table, partition_lines, defect_positions,
                   sequence_data, partition_flags, defect_data, masked_flags,
                   valid_counts, expanded_partitions, final_sequences, files,
                   exit_status, call>>

\* main.py run: sys.exit(0) on success, sys.exit(1) otherwise
CliExit ==
    /\ pc = "returned"
    /\ exit_status' = IF result.success THEN 0 ELSE 1
    /\ pc' = "exited"
    /\ UNCHANGED <<cli_mask_length, options, input_table, partition_lines, defect_positions,
                   sequence_data, partition_flags, defect_data, masked_flags,
                   valid_counts, expanded_partitions, final_sequences, files,
                   result, call>>

Next ==
    \/ LoadInputs
    \/ ValidateData
    \/ ApplyDefectMask
    \/ CheckCapacity
    \/ ExpandAndShuffle
    \/ FillPartitions
    \/ WriteSequences
    \/ WritePattern
    \/ ReturnSuccess
    \/ CliExit

Spec == Init /\ [][Next]_vars

(***************************************************************************)
(* The same run over the input formats: the table comes as .tsv, .xlsx,    *)
(* .xls or something else, with the legality check on or off, and may hold *)
(* sequences outside the alphabet.  The chip is one row of two positions.  *)
(***************************************************************************)
InputExts == {".tsv", ".xlsx", ".xls", ".csv"}

FormatSeqs == {<<"A">>, <<"c", "0">>, <<"N">>}

FormatsInit ==
    /\ cli_mask_length = 0
    /\ \E ext \in InputExts, cs \in BOOLEAN, gp \in BOOLEAN :
          options = [chip_rows |-> 1, chip_cols |-> 2, density |-> "DPI150",
                     mask_length |-> 0, input_ext |-> ext, check_source |-> cs,
                     generate_pattern |-> gp, pattern_seq_range |-> <<>>]
    /\ partition_lines = <<"P1", "P1">>
    /\ input_table \in SeqsOf([key : {"P1"}, seq : FormatSeqs], 0, MaxSrcRows)
    /\ defect_positions = {}
    /\ pc = "load"
    /\ sequence_data = load_sequences(<<>>)
    /\ partition_flags = <<>>
    /\ defect_data = load_defect_data({})
    /\ masked_flags = <<>>
    /\ valid_counts = <<>>
    /\ expanded_partitions = <<>>
    /\ final_sequences = <<>>
    /\ files = <<>>
    /\ result = NoResult
    /\ exit_status = -1
    /\ call = NoCall

SpecFormats == FormatsInit /\ [][Next]_vars

(***************************************************************************)
(* Direct calls of the engine's functions, as src/test_basic.py makes      *)
(* them: each action draws the arguments and records the call with what    *)
(* it returned.                                                            *)
(***************************************************************************)
\* no run is going on
RunIdle ==
    /\ cli_mask_length = 0
    /\ options = [chip_rows |-> 1, chip_cols |-> 1, density |-> "DPI300",
                  mask_length |-> 0, input_ext |-> ".tsv", check_source |-> TRUE,
                  generate_pattern |-> FALSE, pattern_seq_range |-> <<>>]
    /\ input_table = <<>>
    /\ partition_lines = <<>>
    /\ defect_positions = {}
    /\ pc = "idle"
    /\ sequence_data = load_sequences(<<>>)
    /\ partition_flags = <<>>
    /\ defect_data = load_defect_data({})
    /\ masked_flags = <<>>
    /\ valid_counts = <<>>
    /\ expanded_partitions = <<>>
    /\ final_sequences = <<>>
    /\ files = <<>>
    /\ result = NoResult
    /\ exit_status = -1

\* the sequences handed to a direct call: the source sequences and a filler
CallSeqs == SrcSeqs \cup {<<"0">>}

\* the expanded pools handed to _fill_partitions: every dict over the
\* partitions, in either insertion order, with pools of up to MaxPoolLen
CallPools ==
    LET lists == SeqsOf(SrcSeqs, 0, MaxPoolLen)
    IN {<<>>}
       \cup {<<[key |-> p, val |-> l]>> : p \in Partitions, l \in lists}
       \cup {d \in {<<[key |-> p, val |-> l], [key |-> q, val |-> m]>> :
                      p \in Partitions, q \in Partitions, l \in lists, m \in lists} :
               d[1].key # d[2].key}

CallCapacity ==
    /\ call = NoCall
    /\ \E r \in 1..MaxCallDim, c \in 1..MaxCallDim, d \in Densities :
          call' = [fn |-> "calculate_total_capacity",
                   chip_rows |-> r, chip_cols |-> c, density |-> d,
                   ret |-> calculate_total_capacity(r, c, d)]
    /\ UNCHANGED run_vars

CallApplyDefectMask ==
    /\ call = NoCall
    /\ \E r \in 1..MaxCallDim, d \in Densities,
          flags \in SeqsOf(Flags, 0, MaxFlagsLen),
          a \in SUBSET (1..MaxCallDefect), b \in SUBSET (1..MaxCallDefect) :
          LET dd == [defect_a_locations |-> a, defect_b_locations |-> b]
          IN call' = [fn |-> "apply_defect_mask",
                      chip_rows |-> r, density |-> d,
                      partition_flags |-> flags, defect_data |-> dd,
                      ret |-> apply_defect_mask(r, d, flags, dd)]
    /\ UNCHANGED run_vars

CallExtend ==
    /\ call = NoCall
    /\ \E list \in SeqsOf(SrcSeqs, 0, MaxListLen), t \in 0..MaxTarget,
          filler \in {Zeros(1), Zeros(2)} :
          LET e == extend_sequences(list, t, filler)
          IN call' = [fn |-> "extend_sequences",
                      seq_list |-> list, max_count |-> t, dummy_seq |-> filler,
                      raised |-> e.raised, ret |-> e.value]
    /\ UNCHANGED run_vars

CallShuffle ==
    /\ call = NoCall
    /\ \E list \in SeqsOf(CallSeqs, 0, MaxListLen) :
          \E s \in shuffle_sequences(list) :
             call' = [fn |-> "shuffle_sequences",
                      sequences |-> list, ret |-> s.ret, sequences_after |-> s.arg]
    /\ UNCHANGED run_vars

CallFill ==
    /\ call = NoCall
    /\ \E flags \in SeqsOf(Flags, 0, MaxFlagsLen), pools \in CallPools,
          m \in MaskLengths :
          LET dummy == fill_dummy_seq(pools, m)
          IN call' = [fn |-> "_fill_partitions",
                      masked_flags |-> flags, expanded_partitions |-> pools,
                      mask_length |-> m,
                      dummy_seq |-> dummy,
                      cursors |-> [n \in 0..Len(flags) |->
                                     fill_loop(flags, pools, dummy, n).partition_indices],
                      ret |-> fill_partitions(flags, pools, m)]
    /\ UNCHANGED run_vars

\* the sequence at position index k of a pattern call: three bases that spell
\* k in base 4, so that the cells of a pattern tell the positions apart
PatternLabel(k) ==
    LET bases == <<"A", "C", "G", "T">>
    IN <<bases[((k \div 16) % 4) + 1], bases[((k \div 4) % 4) + 1], bases[(k % 4) + 1]>>

\* the sequence lists handed to the renderer for a chip of capacity cap: the
\* first n labels, whole or cut to uneven lengths, for n up to one more than
\* the capacity, and the list of the D150 worked example
PatternSequences(cap) ==
    {[k \in 1..n |-> PatternLabel(k - 1)] : n \in 0..(cap + 1)}
    \cup {[k \in 1..n |-> Take(PatternLabel(k - 1), 1 + (k % 3))] : n \in 1..(cap + 1)}
    \cup {<<Repeat(<<"A">>, 4), Repeat(<<"C">>, 4), Repeat(<<"G">>, 4), Repeat(<<"T">>, 4)>>}

\* seq_range: None, or a 1-based inclusive window
PatternRanges ==
    {<<>>} \cup {w \in (1..MaxWindow) \X (1..MaxWindow) : w[1] <= w[2]}

CallPattern ==
    /\ call = NoCall
    /\ \E rows \in 1..MaxPatDim, cols \in 1..MaxPatDim, d \in Densities,
          range \in PatternRanges :
          \E seqs \in PatternSequences(calculate_total_capacity(rows, cols, d)) :
             call' = [fn |-> "generate_pattern_content",
                      chip_rows |-> rows, chip_cols |-> cols,
                      sequences |-> seqs, density |-> d, seq_range |-> range,
                      ret |-> generate_pattern_content(rows, cols, seqs, d, range)]
    /\ UNCHANGED run_vars

\* the lines handed to write_sequences
WriteLines == {<<>>, <<"0">>, <<"A", "A">>, <<"B", "B">>, <<"C", "C">>}

CallWriteSequences ==
    /\ call = NoCall
    /\ \E seqs \in SeqsOf(WriteLines, 0, MaxListLen) :
          call' = [fn |-> "write_sequences", sequences |-> seqs,
                   content |-> write_sequences(seqs)]
    /\ UNCHANGED run_vars

\* the strings handed to validate_sequence
ValidateInputs ==
    SeqsOf({"A", "g", "0", "N", "\n"}, 0, MaxListLen)

CallValidateSequence ==
    /\ call = NoCall
    /\ \E seq \in ValidateInputs :
          call' = [fn |-> "validate_sequence", seq |-> seq, ret |-> validate_sequence(seq)]
    /\ UNCHANGED run_vars

CallInit == RunIdle /\ call = NoCall

CallNext ==
    \/ CallCapacity
    \/ CallApplyDefectMask
    \/ CallExtend
    \/ CallShuffle
    \/ CallFill
    \/ CallPattern
    \/ CallWriteSequences
    \/ CallValidateSequence

SpecCalls == CallInit /\ [][CallNext]_vars

(***************************************************************************)
(* The claims.                                                             *)
(***************************************************************************)
\* number of indices of a list holding x, and among the first n
Count(list, x) == Cardinality({k \in 1..Len(list) : list[k] = x})
CountUpTo(list, x, n) == Cardinality({k \in 1..n : list[k] = x})

\* the capacity and the divisor as the design states them
SpecCapacity(rows, cols, density) ==
    CASE density = "DPI150" -> rows * cols
      [] density = "DPI150_PLUS" -> rows * cols + (rows - 1) * (cols - 1)
      [] density = "DPI300" -> 4 * rows * cols

SpecDivisor(rows, density) ==
    CASE density = "DPI150" -> rows
      [] density = "DPI150_PLUS" -> 2 * rows - 1
      [] density = "DPI300" -> 2 * rows

\* C1: for positive rows and cols calculate_total_capacity returns rows*cols
\* for DPI150, rows*cols + (rows-1)*(cols-1) for DPI150_PLUS and 4*rows*cols
\* for DPI300.
C1_CapacityFormulas ==
    call.fn = "calculate_total_capacity" =>
        call.ret = SpecCapacity(call.chip_rows, call.chip_cols, call.density)

C1_Witness ==
    /\ call.fn = "calculate_total_capacity"
    /\ call.density = "DPI150_PLUS" /\ call.chip_rows = 2 /\ call.chip_cols = 3
    /\ call.ret = 8

\* C2: a run whose loaded mask has a length other than the chip capacity
\* fails with the capacity-mismatch error, and nothing of the later stages
\* (masking, counting, expansion, fill, output) has happened in it.
C2_CapacityMismatchFirst ==
    (/\ pc \notin {"load", "validate"}
     /\ Len(partition_flags) > 0
     /\ Len(partition_flags) #
            calculate_total_capacity(options.chip_rows, options.chip_cols, options.density))
    => /\ ~result.success
       /\ result.message = "CapacityMismatch"
       /\ pc \in {"returned", "exited"}
       /\ masked_flags = <<>>
       /\ DOMAIN valid_counts = {}
       /\ expanded_partitions = <<>>
       /\ final_sequences = <<>>
       /\ files = <<>>

\* a mask one line too long, with a mask length that is too large as well:
\* the run ends on the capacity mismatch
C2_Witness ==
    /\ pc = "exited"
    /\ Len(partition_flags) =
          calculate_total_capacity(options.chip_rows, options.chip_cols, options.density) + 1
    /\ options.mask_length > sequence_data.sequence_length
    /\ result.message = "CapacityMismatch"
    /\ exit_status = 1

\* C3: apply_defect_mask returns a sequence as long as its input whose flag at
\* 0-based index i is "0" when pos = (i mod divisor) + 1 is in set A or in set
\* B and the input's flag otherwise; divisor is rows, 2*rows-1, 2*rows.
C3_DefectMask ==
    call.fn = "apply_defect_mask" =>
        LET divisor == SpecDivisor(call.chip_rows, call.density)
            flags == call.partition_flags
            A == call.defect_data.defect_a_locations
            B == call.defect_data.defect_b_locations
        IN /\ Len(call.ret) = Len(flags)
           /\ \A i \in 0..(Len(flags) - 1) :
                 call.ret[i + 1] =
                    IF ((i % divisor) + 1) \in (A \cup B) THEN "0" ELSE flags[i + 1]

\* DPI150_PLUS with 2 rows (divisor 3) and position 1 in set B only: indices 0
\* and 3 are disabled
C3_Witness ==
    /\ call.fn = "apply_defect_mask"
    /\ call.density = "DPI150_PLUS" /\ call.chip_rows = 2
    /\ call.defect_data.defect_a_locations = {}
    /\ call.defect_data.defect_b_locations = {1}
    /\ call.partition_flags = <<"P1", "P2", "P1", "P2">>
    /\ call.ret = <<"0", "P2", "P1", "0">>

\* C4: masking a masked sequence again with the same defect sets changes
\* nothing.
C4_MaskIdempotent ==
    call.fn = "apply_defect_mask" =>
        apply_defect_mask(call.chip_rows, call.density, call.ret, call.defect_data)
            = call.ret

\* a mask that disabled some flags and kept others
C4_Witness ==
    /\ call.fn = "apply_defect_mask"
    /\ call.ret # call.partition_flags
    /\ \E k \in 1..Len(call.ret) : call.ret[k] # "0"
    /\ \E k \in 1..Len(call.ret) : call.ret[k] = "0" /\ call.partition_flags[k] # "0"
    /\ call.density = "DPI300"

\* C5: for a non-empty list and target_count >= 0 extend_sequences returns
\* target_count elements: the first target_count of the list when the list is
\* long enough, else the list repeated target_count div len times followed by
\* target_count mod len fillers.
C5_ExtendExact ==
    (call.fn = "extend_sequences" /\ Len(call.seq_list) > 0) =>
        LET list == call.seq_list
            target == call.max_count
            whole == (target \div Len(list)) * Len(list)
        IN /\ ~call.raised
           /\ Len(call.ret) = target
           /\ target <= Len(list) =>
                 \A k \in 1..target : call.ret[k] = list[k]
           /\ target > Len(list) =>
                 /\ \A k \in 1..whole : call.ret[k] = list[((k - 1) % Len(list)) + 1]
                 /\ \A k \in (whole + 1)..target : call.ret[k] = call.dummy_seq
                 /\ target - whole = target % Len(list)

\* three sequences extended to seven: two whole copies, then one filler
C5_Witness ==
    /\ call.fn = "extend_sequences"
    /\ Len(call.seq_list) = 3 /\ call.max_count = 7
    /\ call.seq_list[1] # call.seq_list[3]
    /\ call.ret = call.seq_list \o call.seq_list \o <<call.dummy_seq>>

\* C6: shuffle_sequences returns a permutation of its input, whatever the
\* random source gives, and leaves the input list as it was.
C6_ShufflePermutes ==
    call.fn = "shuffle_sequences" =>
        /\ Len(call.ret) = Len(call.sequences)
        /\ \A x \in CallSeqs : Count(call.ret, x) = Count(call.sequences, x)
        /\ call.sequences_after = call.sequences

\* a shuffle that moved elements
C6_Witness ==
    /\ call.fn = "shuffle_sequences"
    /\ Len(call.sequences) = 3
    /\ call.ret[1] = call.sequences[3]
    /\ call.ret[3] = call.sequences[2]
    /\ call.ret # call.sequences

\* C7: _fill_partitions returns as many sequences as there are masked flags,
\* whatever the pools (empty pools, missing partitions, no pool at all).
C7_FillLength ==
    call.fn = "_fill_partitions" => Len(call.ret) = Len(call.masked_flags)

\* no pool at all, and flags that name partitions
C7_Witness ==
    /\ call.fn = "_fill_partitions"
    /\ call.expanded_partitions = <<>>
    /\ call.masked_flags = <<"P1", "0", "P2">>
    /\ Len(call.ret) = 3

\* C8: every index whose masked flag is "0" holds the filler, and the turn
\* that emits it leaves every partition's cursor where it was.
C8_DisabledGetsFiller ==
    call.fn = "_fill_partitions" =>
        \A n \in 1..Len(call.masked_flags) :
            call.masked_flags[n] = "0" =>
                /\ call.ret[n] = call.dummy_seq
                /\ call.cursors[n] = call.cursors[n - 1]

\* a disabled position between two positions of a partition with two sequences
C8_Witness ==
    /\ call.fn = "_fill_partitions"
    /\ call.masked_flags = <<"P1", "0", "P1">>
    /\ call.expanded_partitions = <<[key |-> "P1", val |-> <<<<"A">>, <<"C", "G">>>>]>>
    /\ call.ret = <<<<"A">>, <<"0">>, <<"C", "G">>>>

\* C9: the n-th position (n from 0) flagged with partition p gets pool[p][n]
\* whenever n < len(pool[p]); so a partition with as many valid positions as
\* pool elements shows its pool, in pool order, over its positions.
C9_PoolOrder ==
    call.fn = "_fill_partitions" =>
        LET flags == call.masked_flags
            pools == call.expanded_partitions
        IN \A p \in KeySet(pools) :
              LET pool == Get(pools, p)
                  NthPosition(n) ==
                      CHOOSE k \in 1..Len(flags) :
                          flags[k] = p /\ CountUpTo(flags, p, k - 1) = n
              IN /\ \A k \in 1..Len(flags) :
                       (flags[k] = p /\ CountUpTo(flags, p, k - 1) < Len(pool)) =>
                           call.ret[k] = pool[CountUpTo(flags, p, k - 1) + 1]
                 /\ (p # "0" /\ Count(flags, p) = Len(pool)) =>
                       [n \in 1..Len(pool) |-> call.ret[NthPosition(n - 1)]] = pool

\* two partitions with interleaved positions, each with two sequences
C9_Witness ==
    /\ call.fn = "_fill_partitions"
    /\ call.masked_flags = <<"P1", "P2", "P1", "P2">>
    /\ call.expanded_partitions =
          <<[key |-> "P2", val |-> <<<<"C", "G">>, <<"A">>>>],
            [key |-> "P1", val |-> <<<<"A">>, <<"C", "G">>>>]>>
    /\ call.ret = <<<<"A">>, <<"C", "G">>, <<"C", "G">>, <<"A">>>>

\* the three validations of a run, stated over its data
CapacityCheckHolds ==
    Len(partition_flags) =
        SpecCapacity(options.chip_rows, options.chip_cols, options.density)

MaskLengthCheckHolds == options.mask_length <= sequence_data.sequence_length

PartitionCheckHolds ==
    LET ps == sequence_data.partition_sequences
    IN /\ KeySet(ps) = {masked_flags[k] : k \in 1..Len(masked_flags)} \ {"0"}
       /\ \A i \in 1..Len(ps) : Len(ps[i].val) <= Count(masked_flags, ps[i].key)

\* C10: no output file is written before the capacity check, the mask-length
\* check and the partition capacity check have all succeeded; a run in which
\* a validation fails ends with a failure result, a non-zero exit status and
\* no output file.
C10_NoOutputBeforeValidation ==
    /\ files # <<>> =>
          CapacityCheckHolds /\ MaskLengthCheckHolds /\ PartitionCheckHolds
    /\ (/\ pc \in {"returned", "exited"}
        /\ \/ ~CapacityCheckHolds
           \/ ~MaskLengthCheckHolds
           \/ ~PartitionCheckHolds)
       => ~result.success /\ files = <<>>
    /\ pc = "exited" => (exit_status = 0 <=> result.success)
    /\ (pc = "exited" /\ exit_status # 0) => files = <<>>

\* a run that passed the first two checks and failed the partition check,
\* asked for both files and wrote none
C10_Witness ==
    /\ pc = "exited"
    /\ CapacityCheckHolds /\ MaskLengthCheckHolds /\ ~PartitionCheckHolds
    /\ result.message = "PartitionOverflow"
    /\ options.generate_pattern
    /\ exit_status = 1
    /\ files = <<>>

\* the run got past _validate_data and reached _check_capacity
ReachedCapacityCheck ==
    pc \notin {"load", "validate", "mask", "check"} /\ masked_flags # <<>>

\* C11: _check_capacity succeeds exactly when the source partitions are the
\* non-"0" flags of the masked sequence and no partition supplies more
\* sequences than it has valid positions; a source partition with no valid
\* position, a partition that overflows and a mask partition absent from the
\* source each fail the run.
C11_CapacityCheckExact ==
    ReachedCapacityCheck =>
        LET ps == sequence_data.partition_sequences
            masked == {masked_flags[k] : k \in 1..Len(masked_flags)} \ {"0"}
            failed == result.message \in
                        {"UnknownPartition", "PartitionOverflow", "ExtraneousPartition"}
        IN /\ failed <=> ~PartitionCheckHolds
           /\ failed => pc \in {"returned", "exited"} /\ ~result.success
           /\ (\E p \in KeySet(ps) : p \notin masked) => failed
           /\ (\E i \in 1..Len(ps) : Len(ps[i].val) > Count(masked_flags, ps[i].key))
                 => failed
           /\ (\E p \in masked : p \notin KeySet(ps)) => failed

\* a partition that fills its two valid positions exactly, beside a disabled
\* position: the check passes and the run goes on
C11_Witness ==
    /\ pc = "expand"
    /\ Len(sequence_data.partition_sequences) = 1
    /\ Len(sequence_data.partition_sequences[1].val) = 2
    /\ Count(masked_flags, sequence_data.partition_sequences[1].key) = 2
    /\ Count(masked_flags, "0") = 2

\* C12: a run that asks for a mask longer than the longest source sequence
\* fails before any masking or output, with the mask-length error when the
\* mask file itself is accepted; a requested mask length of 0 becomes the
\* longest source length before validation and never raises that error.
C12_MaskLengthChecked ==
    pc # "load" =>
        /\ cli_mask_length > sequence_data.sequence_length =>
               /\ pc \in {"validate", "returned", "exited"}
               /\ masked_flags = <<>> /\ final_sequences = <<>> /\ files = <<>>
               /\ pc # "validate" => ~result.success
               /\ pc = "exited" => exit_status = 1
               /\ (pc # "validate" /\ CapacityCheckHolds
                     /\ ~partition_file_empty(partition_lines))
                      => result.message = "MaskLengthExceeded"
        /\ cli_mask_length = 0 =>
               /\ options.mask_length = sequence_data.sequence_length
               /\ result.message # "MaskLengthExceeded"
        /\ result.message = "MaskLengthExceeded" =>
               cli_mask_length > sequence_data.sequence_length

C12_Witness ==
    /\ pc = "exited"
    /\ cli_mask_length = 2
    /\ sequence_data.sequence_length = 1
    /\ result.message = "MaskLengthExceeded"

\* C13: extend_sequences of an empty list fails (the division by the empty
\* pool's size) when the target is above 0 and returns nothing; with target 0
\* it returns the empty list; it fails in no other case.
C13_EmptyPool ==
    call.fn = "extend_sequences" =>
        /\ (call.seq_list = <<>> /\ call.max_count > 0) => call.raised /\ call.ret = <<>>
        /\ (call.seq_list = <<>> /\ call.max_count = 0) => ~call.raised /\ call.ret = <<>>
        /\ call.raised => call.seq_list = <<>> /\ call.max_count > 0

C13_Witness ==
    /\ call.fn = "extend_sequences"
    /\ call.seq_list = <<>>
    /\ call.max_count = 3
    /\ call.raised

\* the pattern text read back: its lines, and the cell of column j (0-based)
\* of a line when the cells are w wide
RECURSIVE SplitLines(_)
SplitLines(text) ==
    IF \A k \in 1..Len(text) : text[k] # "\n" THEN <<text>>
    ELSE LET k == CHOOSE x \in 1..Len(text) :
                     text[x] = "\n" /\ \A m \in 1..(x - 1) : text[m] # "\n"
         IN <<SubSeq(text, 1, k - 1)>> \o SplitLines(SubSeq(text, k + 1, Len(text)))

CellOf(line, j, w) == SubSeq(line, j * w + 1, (j + 1) * w)

\* the display window of a pattern call, 1-based and inclusive
PatternFrom(c) == IF c.seq_range = <<>> THEN 1 ELSE c.seq_range[1]
PatternTo(c) ==
    IF c.seq_range # <<>> THEN c.seq_range[2]
    ELSE IF c.sequences = <<>> THEN 1 ELSE Len(c.sequences[1])

\* the bases of seq inside the window, and a text right-justified in w columns
Window(seq, from, to) ==
    LET hi == IF to < Len(seq) THEN to ELSE Len(seq)
    IN IF from > hi THEN <<>> ELSE [k \in 1..(hi - from + 1) |-> seq[from + k - 1]]

RightJustified(text, w) ==
    [k \in 1..w |-> IF k <= w - Len(text) THEN " " ELSE text[k - (w - Len(text))]]

\* the grid and the position formulas as the design states them
SpecGridRows(rows, density) ==
    CASE density = "DPI150" -> rows
      [] density = "DPI150_PLUS" -> 2 * rows - 1
      [] density = "DPI300" -> 2 * rows

SpecGridCols(cols, density) ==
    CASE density = "DPI150" -> cols
      [] density = "DPI150_PLUS" -> 2 * cols - 1
      [] density = "DPI300" -> 2 * cols

SpecIsDataCell(density, i, j) == density = "DPI150_PLUS" => (i % 2 = j % 2)

SpecPos(rows, density, i, j) ==
    CASE density = "DPI150" -> j * rows + (rows - i - 1)
      [] density = "DPI150_PLUS" ->
            IF j % 2 = 0
            THEN (j \div 2) * (2 * rows - 1) + rows - (i \div 2) - 1
            ELSE (j \div 2) * (2 * rows - 1) + 2 * rows - 1 - (i \div 2) - 1
      [] density = "DPI300" -> (2 * rows) * (j + 1) - i - 1

\* C14: the pattern has the density's grid, cell (i, j) shows the sequence at
\* the position the density's formula gives, the cells of D150_PLUS where i
\* and j differ in parity are blank, and the D150 example of a 2 x 2 chip
\* with AAAA, CCCC, GGGG, TTTT is the two lines CCCC TTTT and AAAA GGGG.
C14_PatternPositions ==
    call.fn = "generate_pattern_content" =>
        LET lines == SplitLines(call.ret)
            from == PatternFrom(call)
            to == PatternTo(call)
            w == to - from + 2
            d == call.density
        IN /\ Len(lines) = SpecGridRows(call.chip_rows, d)
           /\ \A i \in 0..(SpecGridRows(call.chip_rows, d) - 1),
                 j \in 0..(SpecGridCols(call.chip_cols, d) - 1) :
                 LET pos == SpecPos(call.chip_rows, d, i, j)
                     cell == CellOf(lines[i + 1], j, w)
                 IN IF ~SpecIsDataCell(d, i, j)
                    THEN cell = [k \in 1..w |-> " "]
                    ELSE pos < Len(call.sequences) =>
                            cell = RightJustified(
                                      Window(call.sequences[pos + 1], from, to), w)
           /\ (/\ d = "DPI150" /\ call.chip_rows = 2 /\ call.chip_cols = 2
               /\ call.sequences = <<Repeat(<<"A">>, 4), Repeat(<<"C">>, 4),
                                     Repeat(<<"G">>, 4), Repeat(<<"T">>, 4)>>
               /\ call.seq_range \in {<<>>, <<1, 4>>})
                 => call.ret = <<" ", "C", "C", "C", "C", " ", "T", "T", "T", "T", "\n",
                                 " ", "A", "A", "A", "A", " ", "G", "G", "G", "G">>

C14_Witness ==
    /\ call.fn = "generate_pattern_content"
    /\ call.density = "DPI150_PLUS"
    /\ call.chip_rows = 2 /\ call.chip_cols = 2
    /\ call.seq_range = <<>>
    /\ call.sequences = [k \in 1..5 |-> PatternLabel(k - 1)]

\* C15: for a window from <= to every line of the pattern is as long as the
\* grid has columns times the cell width (to - from + 1) + 1; a data cell is
\* the window of its sequence right-justified after spaces, a cell whose
\* position is not below the number of sequences is a space and a filler of
\* window-length "0", and a placeholder is blank.
C15_CellWidth ==
    (call.fn = "generate_pattern_content" /\ PatternFrom(call) <= PatternTo(call)) =>
        LET lines == SplitLines(call.ret)
            from == PatternFrom(call)
            to == PatternTo(call)
            length == to - from + 1
            d == call.density
            gridcols == SpecGridCols(call.chip_cols, d)
        IN /\ \A r \in 1..Len(lines) : Len(lines[r]) = gridcols * (length + 1)
           /\ \A r \in 1..Len(lines), j \in 0..(gridcols - 1) :
                 LET cell == CellOf(lines[r], j, length + 1)
                     pos == SpecPos(call.chip_rows, d, r - 1, j)
                 IN /\ Len(cell) = length + 1
                    /\ IF ~SpecIsDataCell(d, r - 1, j)
                       THEN \A k \in 1..(length + 1) : cell[k] = " "
                       ELSE IF pos >= Len(call.sequences)
                       THEN /\ cell[1] = " "
                            /\ \A k \in 2..(length + 1) : cell[k] = "0"
                       ELSE LET win == Window(call.sequences[pos + 1], from, to)
                                pad == length + 1 - Len(win)
                            IN /\ \A k \in 1..pad : cell[k] = " "
                               /\ SubSeq(cell, pad + 1, length + 1) = win

\* a window that runs past the end of a short sequence, next to a filler
C15_Witness ==
    /\ call.fn = "generate_pattern_content"
    /\ call.density = "DPI300"
    /\ call.chip_rows = 1 /\ call.chip_cols = 1
    /\ call.seq_range = <<2, 4>>
    /\ Len(call.sequences) = 3
    /\ Len(call.sequences[2]) = 3 /\ Len(call.sequences[3]) = 1

\* the place of the first character of line k within lines joined by one
\* newline each
RECURSIVE LineStart(_, _)
LineStart(lines, k) ==
    IF k = 1 THEN 1 ELSE LineStart(lines, k - 1) + Len(lines[k - 1]) + 1

\* C16: the content write_sequences writes for a non-empty list is the
\* sequences in list order, one newline between neighbours and nothing after
\* the last; AA, BB, CC gives AA\nBB\nCC.
C16_WriteSequences ==
    (call.fn = "write_sequences" /\ call.sequences # <<>>) =>
        LET seqs == call.sequences
            n == Len(seqs)
        IN /\ Len(call.content) = LineStart(seqs, n) + Len(seqs[n]) - 1
           /\ \A k \in 1..n :
                 /\ SubSeq(call.content, LineStart(seqs, k),
                           LineStart(seqs, k) + Len(seqs[k]) - 1) = seqs[k]
                 /\ k < n => call.content[LineStart(seqs, k) + Len(seqs[k])] = "\n"
           /\ seqs = <<<<"A", "A">>, <<"B", "B">>, <<"C", "C">>>>
                 => call.content = <<"A", "A", "\n", "B", "B", "\n", "C", "C">>

C16_Witness ==
    /\ call.fn = "write_sequences"
    /\ call.sequences = <<<<"A", "A">>, <<"B", "B">>, <<"C", "C">>>>
    /\ Len(call.content) = 8

\* the strings the design lets through: not empty, only A, T, C, G in either
\* case and 0
SpecLegal(seq) ==
    /\ seq # <<>>
    /\ \A k \in 1..Len(seq) : seq[k] \in {"A", "T", "C", "G", "a", "t", "c", "g", "0"}

\* validate_sequence called directly accepts exactly the legal strings
ValidateSequenceExact ==
    call.fn = "validate_sequence" => (call.ret <=> SpecLegal(call.seq))

\* C17, as stated: validate_sequence accepts exactly the legal strings; with
\* the check on, a run whose table (.tsv, .xlsx or .xls) holds a sequence that
\* validate_sequence rejects fails with the illegal-character error before
\* anything is written; with the check off no run fails with that error.
C17_IllegalCharacterChecked ==
    LET rejected == \E i \in 1..Len(input_table) : ~validate_sequence(input_table[i].seq)
    IN /\ \A i \in 1..Len(input_table) :
             validate_sequence(input_table[i].seq) <=> SpecLegal(input_table[i].seq)
       /\ (/\ options.check_source
           /\ options.input_ext \in {".tsv", ".xlsx", ".xls"}
           /\ rejected
           /\ pc # "load")
             => /\ pc \in {"returned", "exited"}
                /\ result.message = "IllegalCharacter"
                /\ files = <<>>
       /\ ~options.check_source => result.message # "IllegalCharacter"

\* a sequence of "0" only, which no source sequence of a run is
IsFiller(seq) == \A k \in 1..Len(seq) : seq[k] = "0"

\* the final sequences of the run are there
Filled == pc \in {"write_sequences", "write_pattern", "return"}
            \/ (pc \in {"returned", "exited"} /\ result.success)

\* C18, as stated: every filler of the final output, padding or the filler
\* of a disabled position, has the configured mask length (after the auto
\* rule).
C18_FillersOfMaskLength ==
    Filled =>
        \A n \in 1..Len(final_sequences) :
            IsFiller(final_sequences[n]) =>
                Len(final_sequences[n]) = options.mask_length

\* C18, amended: every sequence of the final output at a disabled position is
\* a filler of "0" as long as the first element of the first expanded pool
\* (of the mask length when there is no pool); every other one is a source
\* sequence of its partition or a padding filler of "0" as long as the
\* longest source sequence; all fillers have the mask length when it was left
\* at 0 and the source sequences are equally long.
C18_FillerLengths ==
    Filled =>
        LET dummy_length == IF expanded_partitions = <<>> THEN options.mask_length
                            ELSE Len(expanded_partitions[1].val[1])
        IN /\ \A n \in 1..Len(final_sequences) :
                 IF masked_flags[n] = "0"
                 THEN final_sequences[n] = Zeros(dummy_length)
                 ELSE \/ \E i \in 1..Len(input_table) :
                           /\ input_table[i].key = masked_flags[n]
                           /\ input_table[i].seq = final_sequences[n]
                      \/ final_sequences[n] = Zeros(sequence_data.sequence_length)
           /\ (/\ cli_mask_length = 0
               /\ \A i \in 1..Len(input_table) :
                     Len(input_table[i].seq) = sequence_data.sequence_length)
                 => C18_FillersOfMaskLength

\* a padding filler longer than the mask, next to a disabled position
C18_Witness ==
    /\ pc = "write_sequences"
    /\ options.mask_length = 1
    /\ sequence_data.sequence_length = 2
    /\ \E n \in 1..Len(final_sequences) : masked_flags[n] = "0"
    /\ \E n \in 1..Len(final_sequences) :
          masked_flags[n] # "0" /\ final_sequences[n] = <<"0", "0">>

\* the indices of the pools of a _fill_partitions call that are not empty
NonEmptyPools(pools) == {i \in 1..Len(pools) : pools[i].val # <<>>}

\* C19, as stated: the filler of _fill_partitions is as long as the first
\* element of the first pool that is not empty, and of the mask length only
\* when every pool is empty.
C19_FillerFromFirstNonEmptyPool ==
    call.fn = "_fill_partitions" =>
        LET pools == call.expanded_partitions
            first == CHOOSE i \in NonEmptyPools(pools) :
                        \A j \in NonEmptyPools(pools) : i <= j
            length == IF NonEmptyPools(pools) # {} THEN Len(pools[first].val[1])
                      ELSE call.mask_length
        IN /\ call.dummy_seq = Zeros(length)
           /\ \A n \in 1..Len(call.masked_flags) :
                 call.masked_flags[n] = "0" => call.ret[n] = Zeros(length)

\* C19, amended: the filler of _fill_partitions is as long as the first
\* element of the first pool in insertion order when that pool is not empty,
\* and of the mask length otherwise, also when a later pool is not empty.
C19_FillerFromFirstPool ==
    call.fn = "_fill_partitions" =>
        LET pools == call.expanded_partitions
            length == IF pools # <<>> /\ pools[1].val # <<>>
                      THEN Len(pools[1].val[1])
                      ELSE call.mask_length
        IN /\ call.dummy_seq = Zeros(length)
           /\ \A n \in 1..Len(call.masked_flags) :
                 call.masked_flags[n] = "0" => call.ret[n] = Zeros(length)

\* the first pool is empty, the second is not, and a position is disabled
C19_Witness ==
    /\ call.fn = "_fill_partitions"
    /\ Len(call.expanded_partitions) = 2
    /\ call.expanded_partitions[1].val = <<>>
    /\ call.expanded_partitions[2].val = <<<<"C", "G">>>>
    /\ call.mask_length = 1
    /\ call.masked_flags = <<"0", "P2">>
    /\ call.ret = <<<<"0">>, <<"C", "G">>>>

\* the run is past both checks and the pass of _fill_partitions is just over
PassOver == pc = "write_sequences"

\* the cursors of _fill_partitions after its first n turns in this run
CursorsAfter(n) ==
    fill_loop(masked_flags, expanded_partitions,
              fill_dummy_seq(expanded_partitions, options.mask_length),
              n).partition_indices

\* C20: in a run past validation and the capacity check, every position
\* whose masked flag is a partition finds that partition among the expanded
\* pools with its cursor below the pool's length, so the defensive branch is
\* not taken and the position gets the pool's next sequence; after the pass
\* every cursor equals its pool's length, which is the partition's valid count.
C20_DefensiveBranchUnused ==
    PassOver =>
        /\ \A n \in 1..Len(masked_flags) :
              LET flag == masked_flags[n] IN
              flag # "0" =>
                  /\ HasKey(expanded_partitions, flag)
                  /\ CursorsAfter(n - 1)[flag] = CountUpTo(masked_flags, flag, n - 1)
                  /\ CountUpTo(masked_flags, flag, n - 1)
                        < Len(Get(expanded_partitions, flag))
                  /\ final_sequences[n] =
                        Get(expanded_partitions, flag)[CountUpTo(masked_flags, flag, n)]
        /\ \A p \in KeySet(expanded_partitions) :
              /\ CursorsAfter(Len(masked_flags))[p] = Len(Get(expanded_partitions, p))
              /\ Len(Get(expanded_partitions, p)) = valid_counts[p]
              /\ valid_counts[p] = Count(masked_flags, p)

\* two partitions share the chip with disabled positions between them
C20_Witness ==
    /\ pc = "write_sequences"
    /\ Len(expanded_partitions) = 2
    /\ Count(masked_flags, "0") > 0
    /\ Count(masked_flags, "P1") = 2
    /\ Count(masked_flags, "P2") = 1

\* the renderer's grid of a chip: its data cells <<i, j>> (0-based) and the
\* position index the generator of the density computes for a cell
DataCells(rows, cols, density) ==
    {c \in (0..(SpecGridRows(rows, density) - 1)) \X (0..(SpecGridCols(cols, density) - 1)) :
        density = "DPI150_PLUS" => plus_is_data_cell(c[1], c[2])}

RendererPos(rows, density, c) ==
    IF density = "DPI150" THEN pos_150dpi(rows, c[1], c[2])
    ELSE IF density = "DPI150_PLUS" THEN pos_150dpi_plus(rows, c[1], c[2])
    ELSE pos_300dpi(rows, c[1], c[2])

\* C21: the renderer's map from the data cells of a chip to position indices
\* is one-to-one and onto 0 .. capacity - 1, so a list of capacity sequences
\* is rendered with every sequence in exactly one cell and no filler cell.
C21_PositionsBijective ==
    call.fn = "generate_pattern_content" =>
        LET rows == call.chip_rows
            cols == call.chip_cols
            d == call.density
            cells == DataCells(rows, cols, d)
            capacity == calculate_total_capacity(rows, cols, d)
        IN /\ \A a \in cells, b \in cells :
                 RendererPos(rows, d, a) = RendererPos(rows, d, b) => a = b
           /\ {RendererPos(rows, d, c) : c \in cells} = 0..(capacity - 1)
           /\ (/\ call.sequences = [k \in 1..capacity |-> PatternLabel(k - 1)]
               /\ call.seq_range = <<>>)
                 => LET lines == SplitLines(call.ret)
                        shown(c) == CellOf(lines[c[1] + 1], c[2], 4)
                    IN /\ \A c \in cells : shown(c) # <<" ", "0", "0", "0">>
                       /\ \A k \in 1..capacity :
                             Cardinality({c \in cells :
                                 shown(c) = <<" ">> \o call.sequences[k]}) = 1

\* the largest D150_PLUS chip of the model, filled to its capacity
C21_Witness ==
    /\ call.fn = "generate_pattern_content"
    /\ call.density = "DPI150_PLUS"
    /\ call.chip_rows = MaxPatDim /\ call.chip_cols = MaxPatDim
    /\ call.seq_range = <<>>
    /\ Len(call.sequences) =
          calculate_total_capacity(MaxPatDim, MaxPatDim, "DPI150_PLUS")
    /\ \A k \in 1..Len(call.sequences) : call.sequences[k] = PatternLabel(k - 1)

\* the run has ended with success
Succeeded == pc = "exited" /\ result.success

\* the positions of the final output flagged p, and the rows of the table
\* that supply p
PositionsOf(p) == {n \in 1..Len(masked_flags) : masked_flags[n] = p}
RowsOf(p) == {i \in 1..Len(input_table) : input_table[i].key = p}

\* C22: after a successful run, for a partition with k supplied sequences
\* and v valid positions, the positions flagged with it hold v div k copies
\* of each supplied sequence occurrence and v mod k fillers, and nothing
\* supplied for another partition only.
C22_PartitionMultiset ==
    Succeeded =>
        \A p \in Partitions :
            LET k == Cardinality(RowsOf(p))
                v == Cardinality(PositionsOf(p))
            IN k > 0 =>
                /\ \A i \in RowsOf(p) :
                      Cardinality({n \in PositionsOf(p) :
                                      final_sequences[n] = input_table[i].seq})
                        = (v \div k) * Cardinality({r \in RowsOf(p) :
                                            input_table[r].seq = input_table[i].seq})
                /\ Cardinality({n \in PositionsOf(p) : IsFiller(final_sequences[n])})
                      = v % k
                /\ \A n \in PositionsOf(p) :
                      \/ IsFiller(final_sequences[n])
                      \/ \E i \in RowsOf(p) : final_sequences[n] = input_table[i].seq

\* two different sequences of one partition over five positions: two copies
\* of each and one filler, which the shuffle has put first
C22_Witness ==
    /\ Succeeded
    /\ Cardinality(PositionsOf("P1")) = 5
    /\ Cardinality(RowsOf("P1")) = 2
    /\ input_table[1].seq # input_table[2].seq
    /\ final_sequences[1] = <<"0", "0">>

\* C23: when all supplied sequences have one length L, every element of the
\* final list of a successful run has length L, the padding fillers and the
\* fillers of disabled positions included, whatever the mask length (which
\* validation keeps at or below L) and the outcome of the shuffle.
C23_UniformLength ==
    (/\ Succeeded
     /\ input_table # <<>>
     /\ \A i \in 1..Len(input_table) :
           Len(input_table[i].seq) = Len(input_table[1].seq))
    => /\ options.mask_length <= Len(input_table[1].seq)
       /\ \A n \in 1..Len(final_sequences) :
             Len(final_sequences[n]) = Len(input_table[1].seq)

\* sequences of length 2 with mask length 1, a padded pool and disabled
\* positions
C23_Witness ==
    /\ Succeeded
    /\ Len(input_table) = 2
    /\ Len(input_table[1].seq) = 2 /\ Len(input_table[2].seq) = 2
    /\ options.mask_length = 1
    /\ Cardinality(PositionsOf("0")) = 2
    /\ Cardinality(PositionsOf("P1")) = 3
    /\ \E n \in PositionsOf("P1") : IsFiller(final_sequences[n])

\* the line position apply_defect_mask gives the position a data cell shows
LinePos(rows, density, c) ==
    (RendererPos(rows, density, c) % defect_divisor(rows, density)) + 1

\* C24: the data cells of one grid row have one line position and those of
\* different grid rows have different ones; so the cells a defect position
\* disables are the data cells of whole grid rows, one row at most for each
\* position of the defect file, and in the final output of a successful run
\* they all hold a filler.
C24_DefectRows ==
    LET rows == options.chip_rows
        d == options.density
        cells == DataCells(rows, options.chip_cols, d)
        disabled(c) == masked_flags[RendererPos(rows, d, c) + 1] = "0"
        rows_hit == {c[1] : c \in {x \in cells : disabled(x)}}
    IN /\ pc = "check" =>
             /\ \A a \in cells, b \in cells :
                   (a[1] = b[1]) <=> (LinePos(rows, d, a) = LinePos(rows, d, b))
             /\ \A c \in cells : disabled(c) <=> LinePos(rows, d, c) \in defect_positions
             /\ \A c \in cells : disabled(c) <=> c[1] \in rows_hit
             /\ Cardinality(rows_hit) <= Cardinality(defect_positions)
             /\ \A c \in cells :
                   ~disabled(c) =>
                      masked_flags[RendererPos(rows, d, c) + 1]
                         = partition_flags[RendererPos(rows, d, c) + 1]
       /\ Succeeded =>
             \A c \in cells :
                disabled(c) => IsFiller(final_sequences[RendererPos(rows, d, c) + 1])

\* a D150_PLUS chip of 2 x 2 whose line 1 is defective: the bottom grid row,
\* positions 0 and 3, is disabled and nothing else
C24_Witness ==
    /\ Succeeded
    /\ options.density = "DPI150_PLUS"
    /\ options.chip_rows = 2 /\ options.chip_cols = 2
    /\ defect_positions = {1}
    /\ PositionsOf("0") = {1, 4}

====
